---- MODULE Spec2Model ----
(***************************************************************************)
(* Model of site_bot_engine.py: a Streamlit chat page that routes each     *)
(* user message to a generative backend with a role-scoped tool list.      *)
(*                                                                         *)
(* Three specifications are given:                                         *)
(*   Spec       the page as written: the sidebar radio fixes the role and  *)
(*              the identity, each chat input runs one turn;               *)
(*   SpecCore   the router section (lines 109-161) driven with any role    *)
(*              and identity value a caller may hand it;                   *)
(*   SpecOrders get_my_orders as a function of the orders table and the    *)
(*              identity, over all small tables.                           *)
(* Strings the code formats are modelled as sequences of string tokens, so *)
(* that what a result refers to can be read back from it.                  *)
(***************************************************************************)
EXTENDS Integers, Sequences, FiniteSets, Bags, TLC

\* ------------------------------------------------------------------ bounds
NSessions == 2
MaxRequests == 2
MaxOrders == 3

Sessions == 1..NSessions

\* ------------------------------------------------------- the data store
\* Rows of the orders table, in rowid (= id) order, as the seed inserts them.
SeedOrders ==
  << [id |-> 101, user_id |-> "client_alice", status |-> "Shipped",    total |-> 99],
     [id |-> 102, user_id |-> "client_bob",   status |-> "Processing", total |-> 499],
     [id |-> 103, user_id |-> "client_alice", status |-> "Delivered",  total |-> 198] >>

SeedProducts ==
  << [id |-> 1, name |-> "AI Widget Pro", stock |-> 50, price |-> 99],
     [id |-> 2, name |-> "Neural Chip",   stock |-> 10, price |-> 499] >>

KNOWLEDGE_BASE == <<"We are 'FutureTech Solutions'. Open Mon-Fri, 9am-5pm. Contact: support@futuretech.com. We sell AI hardware for enthusiasts. Returns are accepted within 30 days.">>

\* A REAL column read back by sqlite3 is a Python float; an f-string prints a
\* whole-dollar float with a trailing ".0".
FormatReal(x) == ToString(x) \o ".0"

\* What a tool call hands back to the caller: a returned value or a raised
\* exception; ident is the identity the query ran with ("" when it takes none).
Returned(out, ident) == [outcome |-> "returned", out |-> out, ident |-> ident]
Raised(exc, ident) == [outcome |-> "raised", out |-> <<exc>>, ident |-> ident]

\* ------------------------------------------------------------- the tools
search_knowledge_base(query) == Returned(KNOWLEDGE_BASE, "")

\* SELECT id, status, total FROM orders WHERE user_id=?
SelectOrdersAll(tbl, user_id) == tbl

SelectOrders(tbl, user_id) == SelectSeq(tbl, LAMBDA r : r.user_id = user_id)

FormatOrder(r) == <<"Order #", ToString(r.id), " (", r.status, ") - $", FormatReal(r.total)>>

RECURSIVE JoinOrders(_)
JoinOrders(rows) ==
  IF rows = <<>> THEN <<>>
  ELSE IF Len(rows) = 1 THEN FormatOrder(rows[1])
  ELSE FormatOrder(rows[1]) \o <<", ">> \o JoinOrders(Tail(rows))

FormatOrdersNoEmptyCase(rows) ==
  <<"Found ", ToString(Len(rows)), " orders: ">> \o JoinOrders(rows)

FormatOrders(rows) ==
  IF rows = <<>> THEN <<"No orders found.">>
  ELSE <<"Found ", ToString(Len(rows)), " orders: ">> \o JoinOrders(rows)

\* cursor.execute raises when the store cannot run the query; nothing in
\* the function catches it.
get_my_orders(tbl, user_id, store_ok) ==
  IF ~store_ok THEN Raised("sqlite3.Error", user_id)
  ELSE Returned(FormatOrders(SelectOrders(tbl, user_id)), user_id)

RECURSIVE SumTotal(_)
SumTotal(tbl) == IF tbl = <<>> THEN 0 ELSE tbl[1].total + SumTotal(Tail(tbl))

\* SUM over no rows is NULL, printed as None.
get_admin_sales_report(tbl, store_ok) ==
  IF ~store_ok THEN Raised("sqlite3.Error", "")
  ELSE Returned(<<"Total Revenue: $",
                  IF tbl = <<>> THEN "None" ELSE FormatReal(SumTotal(tbl)),
                  ", Total Orders: ", ToString(Len(tbl))>>, "")

RECURSIVE FormatProducts(_)
FormatProducts(ps) ==
  IF ps = <<>> THEN <<>>
  ELSE <<"('", ps[1].name, "', ", ToString(ps[1].stock), ")">>
       \o (IF Len(ps) > 1 THEN <<", ">> ELSE <<>>) \o FormatProducts(Tail(ps))

check_inventory(ps, store_ok) ==
  IF ~store_ok THEN Raised("sqlite3.Error", "")
  ELSE Returned(<<"[">> \o FormatProducts(ps) \o <<"]">>, "")

\* ------------------------------------------------------------------ state
VARIABLES
  role,             \* per session: the sidebar radio's selection
  messages,         \* per session: st.session_state.messages
  pc,               \* per session: "idle", or "calling" while generate_content runs
  user_role,        \* per session: the running script's global user_role
  current_user_id,  \* per session: the running script's global current_user_id
  prompt,           \* per session: the chat input of the turn
  tools,            \* per session: the list built by the router for the turn
  sys_instruct,     \* per session: the system instruction of the turn
  last_call,        \* per session: the latest tool invocation made by the backend
  display,          \* per session: what the turn's assistant block displayed
  backend,          \* per session: how the turn's generate_content call ended
  nreq,             \* number of turns started so far
  issued,           \* the bag of list objects handed to the backend so far
  orders,           \* the orders table
  result            \* SpecOrders: the latest direct get_my_orders result

vars == <<role, messages, pc, user_role, current_user_id, prompt, tools,
          sys_instruct, last_call, display, backend, nreq, issued, orders, result>>

RadioOptions == {"Visitor", "Client (Alice)", "Admin"}
KnownRoles == {"visitor", "client", "admin"}
\* The prompt is stored and passed on; no branch of the script reads it.
Prompts == {"Show me the orders of client_bob"}

\* The arguments the backend may supply to a tool: none, or one string.
NoArg == "<no argument>"
ModelArgs == {NoArg, "client_bob"}

NoCall == [tool |-> "<none>", res |-> Returned(<<>>, "")]
NoResult == [user_id |-> "<none>", res |-> Returned(<<>>, "")]
NoTools == [obj |-> <<0, 0, "none">>, items |-> <<>>]

\* --------------------------------------------- role selection (lines 81-95)
UserRole(radio) ==
  IF radio = "Client (Alice)" THEN "client"
  ELSE IF radio = "Admin" THEN "admin" ELSE "visitor"

CurrentUserId(radio) ==
  IF radio = "Client (Alice)" THEN "client_alice"
  ELSE IF radio = "Admin" THEN "admin" ELSE "guest"

\* ------------------------------------------------- the router (lines 116-143)
\* A list display or a def statement makes a new object each time it is
\* evaluated.  An object is named by the session, the number of the turn in
\* that session and the statement that made it; the module's own functions
\* are named by turn 0.
NewObjShared(s, k, stmt) == <<0, 0, stmt>>

NewObj(s, k, stmt) == <<s, k, stmt>>

ToolNamesAllToVisitor(r) ==
  IF r \in KnownRoles
  THEN <<"search_knowledge_base", "get_admin_sales_report", "check_inventory">>
  ELSE <<>>

ToolNamesAdminAlsoOrders(r) ==
  IF r = "visitor" THEN <<"search_knowledge_base">>
  ELSE IF r = "client" THEN <<"search_knowledge_base", "safe_get_orders">>
  ELSE IF r = "admin"
  THEN <<"search_knowledge_base", "safe_get_orders", "get_admin_sales_report", "check_inventory">>
  ELSE <<>>

ToolNames(r) ==
  IF r = "visitor" THEN <<"search_knowledge_base">>
  ELSE IF r = "client" THEN <<"search_knowledge_base", "safe_get_orders">>
  ELSE IF r = "admin"
  THEN <<"search_knowledge_base", "get_admin_sales_report", "check_inventory">>
  ELSE <<>>

\* tools = [...]: a new list; safe_get_orders is a function object made by the
\* def inside the client branch, the others are the module's functions.
RouterTools(r, s, k) ==
  [obj |-> NewObj(s, k, "tools"),
   items |-> [i \in DOMAIN ToolNames(r) |->
               [name |-> ToolNames(r)[i],
                obj |-> IF ToolNames(r)[i] = "safe_get_orders"
                        THEN NewObj(s, k, "safe_get_orders")
                        ELSE <<0, 0, ToolNames(r)[i]>>]]]

base_identity == "Current Day/Time: <now>. You represent 'FutureTech Solutions'. ..."

RouterInstruction(r, u) ==
  IF r = "visitor" THEN <<base_identity, " You are a Receptionist. Answer general questions. Do not discuss specific orders.">>
  ELSE IF r = "client" THEN <<base_identity, " You are a Support Agent helping ", u, ". You can check their orders.">>
  ELSE IF r = "admin" THEN <<base_identity, " You are the General Manager. You have full access.">>
  ELSE <<>>

\* ------------------------------------------ tool calls made by the backend
\* def safe_get_orders(): return get_my_orders(current_user_id)
\* The name current_user_id is looked up when the function runs, in the
\* globals of the script run that defined it.
safe_get_orders_live(s, store_ok) == get_my_orders(orders, CurrentUserId(role[s]), store_ok)

safe_get_orders(s, store_ok) == get_my_orders(orders, current_user_id[s], store_ok)

\* Whether the supplied arguments fit the function's signature.
WellFormed(name, arg) ==
  IF name = "search_knowledge_base" THEN arg # NoArg ELSE arg = NoArg

CallTool(s, name, arg, store_ok) ==
  IF ~WellFormed(name, arg) THEN Raised("TypeError", "")
  ELSE IF name = "search_knowledge_base" THEN search_knowledge_base(arg)
  ELSE IF name = "safe_get_orders" THEN safe_get_orders(s, store_ok)
  ELSE IF name = "get_admin_sales_report" THEN get_admin_sales_report(orders, store_ok)
  ELSE check_inventory(SeedProducts, store_ok)

\* except Exception as e: st.error(...) ; the script run then ends normally.
ExceptHandlerNone == [pc |-> "crashed", display |-> "traceback"]

ExceptHandler == [pc |-> "idle", display |-> "error"]

\* ------------------------------------------------------------------ actions
TypeOKInit ==
  /\ role = [s \in Sessions |-> "Visitor"]
  /\ messages = [s \in Sessions |-> <<>>]
  /\ pc = [s \in Sessions |-> "idle"]
  /\ user_role = [s \in Sessions |-> "visitor"]
  /\ current_user_id = [s \in Sessions |-> "guest"]
  /\ prompt = [s \in Sessions |-> ""]
  /\ tools = [s \in Sessions |-> NoTools]
  /\ sys_instruct = [s \in Sessions |-> <<>>]
  /\ last_call = [s \in Sessions |-> NoCall]
  /\ display = [s \in Sessions |-> "none"]
  /\ backend = [s \in Sessions |-> "none"]
  /\ nreq = 0
  /\ issued = EmptyBag
  /\ result = NoResult

Init == TypeOKInit /\ orders = SeedOrders

\* The number of turns session s has started.
TurnsOf(s) == Len(SelectSeq(messages[s], LAMBDA m : m.role = "user"))

\* Lines 109-157 of one script run whose globals are user_role = r and
\* current_user_id = u: record the user message, build the tool list and the
\* instruction, and enter generate_content.
Turn(s, r, u, p) ==
  /\ pc[s] = "idle"
  /\ nreq < MaxRequests
  /\ user_role' = [user_role EXCEPT ![s] = r]
  /\ current_user_id' = [current_user_id EXCEPT ![s] = u]
  /\ prompt' = [prompt EXCEPT ![s] = p]
  /\ messages' = [messages EXCEPT ![s] = Append(@, [role |-> "user", content |-> p])]
  /\ tools' = [tools EXCEPT ![s] = RouterTools(r, s, TurnsOf(s) + 1)]
  /\ sys_instruct' = [sys_instruct EXCEPT ![s] = RouterInstruction(r, u)]
  /\ last_call' = [last_call EXCEPT ![s] = NoCall]
  /\ display' = [display EXCEPT ![s] = "spinner"]
  /\ backend' = [backend EXCEPT ![s] = "pending"]
  /\ pc' = [pc EXCEPT ![s] = "calling"]
  /\ nreq' = nreq + 1
  /\ issued' = issued (+) SetToBag({RouterTools(r, s, TurnsOf(s) + 1).obj})
  /\ UNCHANGED <<role, orders, result>>

\* The sidebar radio changes and the script reruns without a prompt: lines
\* 84-95 set the globals of the new run, which only redraws.  A run already
\* inside generate_content keeps its own globals.
SelectRole(s, r) ==
  /\ r # role[s]
  /\ role' = [role EXCEPT ![s] = r]
  /\ IF pc[s] = "idle"
     THEN /\ user_role' = [user_role EXCEPT ![s] = UserRole(r)]
          /\ current_user_id' = [current_user_id EXCEPT ![s] = CurrentUserId(r)]
     ELSE UNCHANGED <<user_role, current_user_id>>
  /\ UNCHANGED <<messages, pc, prompt, tools, sys_instruct, last_call, display,
                 backend, nreq, issued, orders, result>>

\* A chat input arrives: the script runs lines 84-95 and then the turn.
Submit(s, p) == Turn(s, UserRole(role[s]), CurrentUserId(role[s]), p)

\* Automatic function calling: the backend invokes one of the callables of
\* the list it was given, with arguments of its choosing.
ToolCall(s, i, arg, store_ok) ==
  /\ pc[s] = "calling"
  /\ i \in DOMAIN tools[s].items
  /\ last_call' = [last_call EXCEPT ![s] =
        [tool |-> tools[s].items[i].name,
         res |-> CallTool(s, tools[s].items[i].name, arg, store_ok)]]
  /\ UNCHANGED <<role, messages, pc, user_role, current_user_id, prompt, tools,
                 sys_instruct, display, backend, nreq, issued, orders, result>>

\* The script run of the turn ends: its tool list, closure and globals are
\* dropped, and the page is left with the globals of its current selection.
EndRun(s) ==
  /\ user_role' = [user_role EXCEPT ![s] = UserRole(role[s])]
  /\ current_user_id' = [current_user_id EXCEPT ![s] = CurrentUserId(role[s])]
  /\ prompt' = [prompt EXCEPT ![s] = ""]
  /\ tools' = [tools EXCEPT ![s] = NoTools]
  /\ sys_instruct' = [sys_instruct EXCEPT ![s] = <<>>]
  /\ last_call' = [last_call EXCEPT ![s] = NoCall]

\* generate_content returns: lines 158-159.
BackendReturn(s) ==
  /\ pc[s] = "calling"
  /\ display' = [display EXCEPT ![s] = "markdown"]
  /\ messages' = [messages EXCEPT ![s] = Append(@, [role |-> "model", content |-> "response.text"])]
  /\ backend' = [backend EXCEPT ![s] = "ok"]
  /\ pc' = [pc EXCEPT ![s] = "idle"]
  /\ EndRun(s)
  /\ UNCHANGED <<role, nreq, issued, orders, result>>

\* generate_content raises: lines 160-161.
BackendFail(s) ==
  /\ pc[s] = "calling"
  /\ backend' = [backend EXCEPT ![s] = "exception"]
  /\ display' = [display EXCEPT ![s] = ExceptHandler.display]
  /\ pc' = [pc EXCEPT ![s] = ExceptHandler.pc]
  /\ EndRun(s)
  /\ UNCHANGED <<role, messages, nreq, issued, orders, result>>

Next ==
  \/ \E s \in Sessions, r \in RadioOptions : SelectRole(s, r)
  \/ \E s \in Sessions, p \in Prompts : Submit(s, p)
  \/ \E s \in Sessions, i \in 1..3, arg \in ModelArgs, ok \in BOOLEAN : ToolCall(s, i, arg, ok)
  \/ \E s \in Sessions : BackendReturn(s)
  \/ \E s \in Sessions : BackendFail(s)

Spec == Init /\ [][Next]_vars

\* ------------------------------------- the router under any caller's inputs
RoleValues == KnownRoles \cup {"superuser"}
IdentityValues == {"client_alice", "client_bob", ""}

Request(s, r, u, p) == Turn(s, r, u, p)

NextCore ==
  \/ \E s \in Sessions, r \in RoleValues, u \in IdentityValues, p \in Prompts : Request(s, r, u, p)
  \/ \E s \in Sessions, i \in 1..3, arg \in ModelArgs, ok \in BOOLEAN : ToolCall(s, i, arg, ok)
  \/ \E s \in Sessions : BackendReturn(s)
  \/ \E s \in Sessions : BackendFail(s)

SpecCore == Init /\ [][NextCore]_vars

\* ----------------------------------- get_my_orders over all small tables
Owners == {"client_alice", "client_bob"}
Statuses == {"Shipped", "Processing", "Delivered"}
QueryIds == {"client_alice", "client_bob", "guest"}

Price(id) == IF id = 101 THEN 99 ELSE IF id = 102 THEN 499 ELSE 198

RowsOf(id) == {[id |-> id, user_id |-> o, status |-> st, total |-> Price(id)] : o \in Owners, st \in Statuses}

\* Every table whose ids lie in first..last, rows in id order.
RECURSIVE TablesFrom(_, _)
TablesFrom(first, last) ==
  IF first > last THEN {<<>>}
  ELSE LET rest == TablesFrom(first + 1, last)
       IN rest \cup {<<r>> \o t : r \in RowsOf(first), t \in rest}

InitOrders == TypeOKInit /\ orders \in TablesFrom(101, 100 + MaxOrders)

Query(u) ==
  /\ result' = [user_id |-> u, res |-> get_my_orders(orders, u, TRUE)]
  /\ UNCHANGED <<role, messages, pc, user_role, current_user_id, prompt, tools,
                 sys_instruct, last_call, display, backend, nreq, issued, orders>>

NextOrders == \E u \in QueryIds : Query(u)

SpecOrders == InitOrders /\ [][NextOrders]_vars

\* ============================================================== properties
ToolNameSet(s) == {tools[s].items[i].name : i \in DOMAIN tools[s].items}

\* The order ids a formatted orders summary refers to, and their statuses.
ReferencedIds(out) == {out[i + 1] : i \in {j \in 1..(Len(out) - 1) : out[j] = "Order #"}}
ReferencedRows(out) ==
  {<<out[i + 1], out[i + 3]>> : i \in {j \in 1..(Len(out) - 3) : out[j] = "Order #"}}
OwnersOf(ids) == {orders[k].user_id : k \in {j \in DOMAIN orders : ToString(orders[j].id) \in ids}}
QueryRan(call) == call.res.outcome = "returned" \/ call.res.out = <<"sqlite3.Error">>

\* C1: in a client turn of identity A, no tool invocation, whatever its
\* arguments, returns an order owned by anyone but A, and the orders tool
\* runs its query with A and with nothing the backend supplied.
C1_ScopingInvariant ==
  \A s \in Sessions :
    (pc[s] = "calling" /\ user_role[s] = "client") =>
      /\ OwnersOf(ReferencedIds(last_call[s].res.out)) \subseteq {current_user_id[s]}
      /\ (last_call[s].tool = "safe_get_orders" /\ QueryRan(last_call[s]))
           => last_call[s].res.ident = current_user_id[s]

C1_Witness ==
  \E s \in Sessions :
    /\ pc[s] = "calling" /\ user_role[s] = "client"
    /\ current_user_id[s] = "client_alice"
    /\ last_call[s].tool = "safe_get_orders"
    /\ ReferencedIds(last_call[s].res.out) = {"101", "103"}

\* C2 (as claimed): a role outside visitor/client/admin yields no tools and an
\* explicit error: the request is refused, not passed on to the backend.
C2_UnknownRoleRefused ==
  \A s \in Sessions :
    user_role[s] \notin KnownRoles =>
      /\ tools[s].items = <<>>
      /\ "get_admin_sales_report" \notin ToolNameSet(s)
      /\ display[s] = "error"
      /\ pc[s] = "idle"

\* C3 (as claimed): Visitor's tools are a strict subset of Client's, and
\* Client's a strict subset of Admin's.
Strict(a, b) == a \subseteq b /\ a # b

C3_ContainmentChain ==
  \A s1, s2 \in Sessions :
    (pc[s1] = "calling" /\ pc[s2] = "calling") =>
      /\ (user_role[s1] = "visitor" /\ user_role[s2] = "client")
           => Strict(ToolNameSet(s1), ToolNameSet(s2))
      /\ (user_role[s1] = "client" /\ user_role[s2] = "admin")
           => Strict(ToolNameSet(s1), ToolNameSet(s2))

\* C3 (amended): Visitor's tools are a strict subset of Client's and of
\* Admin's; Client's are not a subset of Admin's, the identity-bound orders
\* tool being the one Client tool that Admin lacks.
C3_ContainmentAmended ==
  \A s1, s2 \in Sessions :
    (pc[s1] = "calling" /\ pc[s2] = "calling") =>
      /\ (user_role[s1] = "visitor" /\ user_role[s2] \in {"client", "admin"})
           => Strict(ToolNameSet(s1), ToolNameSet(s2))
      /\ (user_role[s1] = "client" /\ user_role[s2] = "admin")
           => ToolNameSet(s1) \ ToolNameSet(s2) = {"safe_get_orders"}

C3_Witness ==
  \E s1, s2 \in Sessions :
    /\ pc[s1] = "calling" /\ pc[s2] = "calling"
    /\ user_role[s1] = "client" /\ user_role[s2] = "admin"

\* C4: the list passed to the backend holds the sales report or the inventory
\* tool only in an admin turn, a visitor turn's list holds no order-related
\* tool, and so the backend calls those functions under no lower role.
AdminOnly == {"get_admin_sales_report", "check_inventory"}
OrderRelated == {"safe_get_orders", "get_admin_sales_report"}

C4_LeastPrivilege ==
  \A s \in Sessions :
    pc[s] = "calling" =>
      /\ (ToolNameSet(s) \cap AdminOnly # {}) => user_role[s] = "admin"
      /\ user_role[s] = "visitor" => ToolNameSet(s) \cap OrderRelated = {}
      /\ last_call[s].tool \in AdminOnly => user_role[s] = "admin"
      /\ last_call[s].tool \in OrderRelated => user_role[s] # "visitor"

C4_Witness ==
  \E s1, s2 \in Sessions :
    /\ pc[s1] = "calling" /\ user_role[s1] = "admin"
    /\ last_call[s1].tool = "get_admin_sales_report"
    /\ pc[s2] = "calling" /\ user_role[s2] = "visitor"
    /\ last_call[s2].tool = "search_knowledge_base"

\* C5: get_my_orders(u) refers to exactly the orders owned by u, with their
\* statuses and their count, and is the "No orders found." message exactly
\* when u owns none; on the seeded table client_alice gets 101 and 103.
OwnedRows(u) ==
  {<<ToString(orders[k].id), orders[k].status>> : k \in {j \in DOMAIN orders : orders[j].user_id = u}}

C5_OrdersResult ==
  result # NoResult =>
    LET out == result.res.out
        u == result.user_id
    IN /\ result.res.outcome = "returned"
       /\ ReferencedRows(out) = OwnedRows(u)
       /\ (out = <<"No orders found.">>) <=> (OwnedRows(u) = {})
       /\ OwnedRows(u) # {} =>
            /\ out[1] = "Found " /\ out[2] = ToString(Cardinality(OwnedRows(u)))
            /\ Cardinality({j \in DOMAIN out : out[j] = "Order #"}) = Cardinality(OwnedRows(u))
       /\ (orders = SeedOrders /\ u = "client_alice")
            => ReferencedIds(out) = {"101", "103"}

C5_Witness ==
  /\ orders = SeedOrders
  /\ result.user_id = "client_alice"
  /\ ReferencedRows(result.res.out) = {<<"101", "Shipped">>, <<"103", "Delivered">>}

\* C6: a failed backend call is displayed as an error and leaves the session
\* idle, never crashed; an idle session accepts the next message as a turn.
C6_SessionUsable ==
  \A s \in Sessions :
    /\ pc[s] \in {"idle", "calling"}
    /\ backend[s] = "exception" => (pc[s] = "idle" /\ display[s] = "error")
    /\ (pc[s] = "idle" /\ nreq < MaxRequests) => \A p \in Prompts : ENABLED Submit(s, p)

C6_Witness ==
  \E s \in Sessions :
    /\ pc[s] = "idle" /\ backend[s] = "ok"
    /\ Len(messages[s]) = 3
    /\ messages[s][1].role = "user" /\ messages[s][2].role = "user"
    /\ messages[s][3].role = "model"

BoundTools(s) ==
  {tools[s].items[i].obj : i \in {j \in DOMAIN tools[s].items : tools[s].items[j].name = "safe_get_orders"}}

C8_PerRequestBinding ==
  /\ \A o \in BagToSet(issued) : CopiesIn(o, issued) = 1
  /\ \A s1, s2 \in Sessions :
       (s1 # s2 /\ pc[s1] = "calling" /\ pc[s2] = "calling") =>
         /\ tools[s1].obj # tools[s2].obj
         /\ BoundTools(s1) \cap BoundTools(s2) = {}

C8_Witness ==
  \E s1, s2 \in Sessions :
    /\ s1 # s2 /\ pc[s1] = "calling" /\ pc[s2] = "calling"
    /\ user_role[s1] = "client" /\ user_role[s2] = "client"
    /\ current_user_id[s1] = "client_alice" /\ current_user_id[s2] = "client_bob"
    /\ last_call[s1].tool = "safe_get_orders" /\ last_call[s2].tool = "safe_get_orders"

\* C9 (as claimed): no tool raises when the store cannot complete its query;
\* it returns a descriptive result instead.
C9_ToolsNeverRaise ==
  \A s \in Sessions :
    last_call[s].res.out = <<"sqlite3.Error">> => last_call[s].res.outcome = "returned"

\* C10 (as claimed): when the role is unknown, or the role is client or admin
\* and the identity is empty, no tool is bound and no backend call is made.
InvalidRequest(s) ==
  \/ user_role[s] \notin KnownRoles
  \/ (user_role[s] \in {"client", "admin"} /\ current_user_id[s] = "")

C10_RouterErrorsStopRequest ==
  \A s \in Sessions :
    InvalidRequest(s) =>
      /\ BoundTools(s) = {}
      /\ pc[s] # "calling"
      /\ backend[s] # "pending"

====
